---- MODULE Spec2Model ----
(***************************************************************************)
(* Model of the emulated-asynchronous MQGET scheduler of lib/mqi.js: the   *)
(* context registry (contextMap), the per-hConn gate (hConnsInUse), the    *)
(* polling chain pollAllHConns -> pollPerHconn -> pollHobjs -> initGet ->  *)
(* pollHObj/pollHObjInternal -> MQGET.async callback, and the verbs that   *)
(* touch the same state (Get, GetDone, Close, Disc, the gated and the      *)
(* ungated MQI verbs).                                                     *)
(*                                                                         *)
(* Node's event loop is modelled by interleaving: every pending timer,     *)
(* immediate or FFI completion is one atomic step (one callback run to     *)
(* completion).  A sequence of nested calls inside one callback is         *)
(* composed from operators that map a state record to a state record.      *)
(***************************************************************************)
EXTENDS Integers, Sequences, FiniteSets, Bags, TLC

(* ---- bounds of the model ---- *)
MaxRegs == 2        \* number of Get() registrations made in one run
MaxMsgs == 1        \* number of messages that arrive in one run
MaxDrain == 3       \* number of messages queued on the one object of SpecDrain
MaxBuf == 8         \* number of messages that arrive one after the other in SpecBuf
MaxTime == 1000     \* the clock stops advancing here
TickMs == 1000      \* granularity of the clock

(* ---- program constants ---- *)
maxBufSize == 104857600
defaultBufSize == 10240
MQHC_UNUSABLE_HCONN == -1
MQHO_UNUSABLE_HOBJ == -1
MQWI_UNLIMITED == -1
LongCallMs == 1000

(* ---- the application's objects and the inputs it uses ---- *)
QMgrs == {1, 2}                               \* MQQueueManager objects; _hConn starts as the number
Objects == {<<1, 1>>, <<1, 2>>, <<2, 1>>}     \* MQObject: <<queue manager, _hObj it was opened with>>
WaitIntervals == {MQWI_UNLIMITED, 500}        \* jsgmo.WaitInterval values registered
MsgLens == {100}                              \* lengths of arriving messages
LongLens == {20000}                           \* lengths beyond defaultBufSize
BufLens == {100, 20000, 30000, maxBufSize}    \* lengths that make the buffer grow and shrink
TuningValues ==                               \* settings made with setTuningParameters
  { [maxConsecutiveGets |-> 2, getLoopPollTimeMs |-> 500,
     getLoopDelayTimeMs |-> 500, syncMQICompat |-> FALSE,
     debugLongCalls |-> FALSE, debugLog |-> FALSE],
    [maxConsecutiveGets |-> 0, getLoopPollTimeMs |-> 0,
     getLoopDelayTimeMs |-> 0, syncMQICompat |-> FALSE,
     debugLongCalls |-> TRUE, debugLog |-> FALSE] }
HandlerActs == {"none", "GetDone", "Get"}     \* what a user callback does with its own object
GatedVerbs == {"PUT"}                         \* Put1, Open and Sub gate the same way
UngatedVerbs == {"CMIT", "GETSYNC"}           \* as do Back, Begin, Stat, Inq, Set: no gate
VerbQMgrs == {1}                              \* the queue manager those verbs are used on

VARIABLES
  hConnOf,        \* jsQueueManager._hConn of each MQQueueManager
  hObjOf,         \* jsObject._hObj of each MQObject
  contextMap,     \* set of <<key, reg>>, at most one per key; key = <<hConn, hObj>>
  ctx,            \* the UserContext objects ever created, indexed by registration
  hConnsInUse,    \* set of <<hConn, time the lock was taken>>
  hConnsInPoll,
  scheduledGetLoop,
  getLoop,        \* TRUE when getLoop holds a timer object
  messagesRetrievedInHConnPoll,
  tuningParameters,
  timers,         \* bag of pending setTimeout/setImmediate continuations
  calls,          \* set of asynchronous transport calls in flight
  queue,          \* messages available on each object, oldest first
  sent,           \* number of messages that have arrived on each object so far
  now,            \* Date.now()
  cbLog,          \* per registration: the invocations of its callback
  began,          \* per registration: when its current wait began
  overlaps,       \* <<verb in flight, verb started>> on one hConn, when the last step did that
  streak,         \* per registration: messages handed over since it was last dispatched
  fate,           \* per registration: "registered", or how it left the registry
  opts            \* one registration's get-options and descriptor: the caller's objects,
                  \* the copies initGet made, the structure handed to MQGET

schedVars == <<hConnOf, hObjOf, contextMap, ctx, hConnsInUse, hConnsInPoll,
               scheduledGetLoop, getLoop, messagesRetrievedInHConnPoll,
               tuningParameters, timers, calls, queue, sent, now, cbLog,
               began, overlaps, streak, fate>>

vars == <<schedVars, opts>>

(* The whole state as one record, so that nested calls compose. *)
Cur ==
  [ hConnOf |-> hConnOf, hObjOf |-> hObjOf, contextMap |-> contextMap,
    ctx |-> ctx, hConnsInUse |-> hConnsInUse, hConnsInPoll |-> hConnsInPoll,
    scheduledGetLoop |-> scheduledGetLoop, getLoop |-> getLoop,
    messagesRetrievedInHConnPoll |-> messagesRetrievedInHConnPoll,
    tuningParameters |-> tuningParameters, timers |-> timers, calls |-> calls,
    queue |-> queue, sent |-> sent, now |-> now, cbLog |-> cbLog,
    began |-> began, overlaps |-> {}, streak |-> streak,
    fate |-> fate ]

(* A UserContext that neither the registry nor a pending continuation refers
   to is garbage: nothing can read it again. *)
Reachable(s) ==
  {e[2] : e \in s.contextMap}
    \cup {t.arg : t \in {u \in BagToSet(s.timers) : u.fn = "pollHObjInternal"}}
    \cup {c.reg : c \in s.calls}

Collected(s) ==
  [r \in DOMAIN s.ctx |->
     IF r \in Reachable(s) THEN s.ctx[r]
     ELSE [object |-> s.ctx[r].object, jsgmoWait |-> s.ctx[r].jsgmoWait, WaitInterval |-> 0,
           WaitStartTime |-> 0, buf |-> 0, bufSize |-> 0, state |-> "collected",
           retrieved |-> 0]]

(* The bookkeeping kept about a registration is dropped one step after the
   registration became garbage: no callback can follow for it. *)
Forgotten(s) ==
  {r \in DOMAIN ctx : ctx[r].state = "collected"} \ Reachable(s)

Kept(gone, f, blank) ==
  [r \in DOMAIN f |-> IF r \in gone THEN blank ELSE f[r]]

Commit(s) ==
  LET gone == Forgotten(s) IN
  /\ hConnOf' = s.hConnOf
  /\ hObjOf' = s.hObjOf
  /\ contextMap' = s.contextMap
  /\ ctx' = Collected(s)
  /\ hConnsInUse' = s.hConnsInUse
  /\ hConnsInPoll' = s.hConnsInPoll
  /\ scheduledGetLoop' = s.scheduledGetLoop
  /\ getLoop' = s.getLoop
  /\ messagesRetrievedInHConnPoll' = s.messagesRetrievedInHConnPoll
  /\ tuningParameters' = s.tuningParameters
  /\ timers' = s.timers
  /\ calls' = s.calls
  /\ queue' = s.queue
  /\ sent' = s.sent
  /\ now' = s.now
  /\ cbLog' = Kept(gone, s.cbLog, <<>>)
  /\ began' = Kept(gone, s.began, 0)
  /\ overlaps' = s.overlaps
  /\ streak' = Kept(gone, s.streak, 0)
  /\ fate' = Kept(gone, s.fate, "gone")
  /\ opts' = opts

(* ---- the context registry ---- *)

(* C26's mutant: the wait clock is not started at construction *)
UserContextUnstarted(o, t) ==
  [ object |-> o, jsgmoWait |-> 0, WaitInterval |-> 0, WaitStartTime |-> 0,
    buf |-> 0, bufSize |-> defaultBufSize, state |-> "running", retrieved |-> 0 ]

UserContext(o, t) ==
  [ object |-> o, jsgmoWait |-> 0, WaitInterval |-> 0, WaitStartTime |-> t,
    buf |-> 0, bufSize |-> defaultBufSize, state |-> "running", retrieved |-> 0 ]

hConnOfCtx(s, r) == s.hConnOf[s.ctx[r].object[1]]

getKey(s, o) == <<s.hConnOf[o[1]], s.hObjOf[o]>>

HasKey(s, k) == \E e \in s.contextMap : e[1] = k

getUserContext(s, o) ==
  IF HasKey(s, getKey(s, o))
  THEN (CHOOSE e \in s.contextMap : e[1] = getKey(s, o))[2]
  ELSE 0

(* C10's mutant: the whole connection's entries go, not the one key's *)
deleteUserContextOfConn(s, o) ==
  [s EXCEPT !.contextMap = {e \in @ : e[1][1] # getKey(s, o)[1]}]

deleteUserContext(s, o) ==
  [s EXCEPT !.contextMap = {e \in @ : e[1] # getKey(s, o)}]

setUserContext(s, o) ==
  LET r == Len(s.ctx) + 1 IN
  [s EXCEPT !.ctx = Append(@, UserContext(o, s.now)),
            !.cbLog = Append(@, <<>>),
            !.began = Append(@, s.now),
            !.streak = Append(@, 0),
            !.fate = Append([q \in DOMAIN @ |->
                               IF <<getKey(s, o), q>> \in s.contextMap
                               THEN "replaced" ELSE @[q]], "registered"),
            !.contextMap = {e \in @ : e[1] # getKey(s, o)} \cup {<<getKey(s, o), r>>}]

isContextAvailable(s, r) ==
  \E e \in s.contextMap : s.ctx[e[2]].object = s.ctx[r].object

deleteUserConnection(s, hConn) ==
  IF hConn # 0 /\ hConn # -1
  THEN [s EXCEPT !.contextMap = {e \in @ : e[1][1] # hConn /\ e[1][1] # -1}]
  ELSE s

(* Bookkeeping, not program state: how the registrations that `after` no
   longer holds left the registry. *)
Left(before, after, why) ==
  [after EXCEPT !.fate = [q \in DOMAIN @ |->
     IF (\E e \in before.contextMap : e[2] = q) /\ ~(\E e \in after.contextMap : e[2] = q)
        /\ @[q] = "registered"
     THEN why ELSE @[q]]]

(* ---- the gate ---- *)

(* C35's mutant: one gate for all connections *)
isLockedAny(s, hc) == s.hConnsInUse # {}

isLocked(s, hc) == \E l \in s.hConnsInUse : l[1] = hc

lock(s, hc) ==
  [s EXCEPT !.hConnsInUse = {l \in @ : l[1] # hc} \cup {<<hc, s.now>>}]

(* C21's mutant: the entry is left in the map *)
unlockNever(s, hc) == s

unlock(s, hc) ==
  [s EXCEPT !.hConnsInUse = {l \in @ : l[1] # hc}]

(* ---- timers ---- *)

Timer(fn, arg, s, delay) ==
  [fn |-> fn, arg |-> arg, due |-> IF delay <= 0 THEN 0 ELSE s.now + delay]

setTimeout(s, fn, arg, delay) ==
  [s EXCEPT !.timers = @ (+) SetToBag({Timer(fn, arg, s, delay)})]

setImmediate(s, fn, arg) == setTimeout(s, fn, arg, 0)

resetGetLoop(s) == [s EXCEPT !.scheduledGetLoop = FALSE, !.getLoop = FALSE]

(* ---- transport calls in flight ---- *)

Call(verb, hc, ho, reg, who, len, s) ==
  [ verb |-> verb, hConn |-> hc, hObj |-> ho, reg |-> reg, who |-> who,
    bufflen |-> len,
    fate |-> IF reg = 0 THEN "none" ELSE s.fate[reg],   \* of reg, when the call is made
    idle |-> s.contextMap = {} ]                        \* no registration then

InFlightOn(s, hc) == {c \in s.calls : c.hConn = hc}

StartCall(s, c) ==
  [s EXCEPT !.calls = @ \cup {c},
            !.overlaps = @ \cup {<<d.verb, c.verb>> : d \in InFlightOn(s, c.hConn)}]

(* ---- the polling chain ---- *)

getAllContextsForPoll(s, hConn) ==
  {e[2] : e \in {f \in s.contextMap : hConnOfCtx(s, f[2]) = hConn}}

getRunningContexts(s, regs) == {r \in regs : s.ctx[r].state = "running"}

(* C1's mutant: connections already under polling are handed out again *)
getFreshHconnsForPollAgain(s) ==
  {hConnOfCtx(s, e[2]) : e \in s.contextMap}

getFreshHconnsForPoll(s) ==
  {hConnOfCtx(s, e[2]) : e \in s.contextMap} \ s.hConnsInPoll

(* pollHObjInternal: take the gate or come back on the next tick, then issue
   one MQGET.async with the context's buffer. *)
(* the length of the buffer handed to MQGET: c.buf is kept unless it is
   missing or shorter than c.bufSize *)
bufflen(c) == IF c.buf = 0 \/ c.buf < c.bufSize THEN c.bufSize ELSE c.buf

pollHObjInternal(s, r) ==
  LET hc == hConnOfCtx(s, r)
      c == s.ctx[r]
      len == bufflen(c)
      s1 == lock(s, hc)
      s2 == [s1 EXCEPT !.ctx[r].buf = len]
  IN IF isLocked(s, hc)
     THEN setImmediate(s, "pollHObjInternal", r)
     ELSE StartCall(s2, Call("MQGET", hc, s.hObjOf[c.object], r, c.object, len, s))

initGet(s, r) == pollHObjInternal(s, r)

(* C19's mutant: no shuffle, the first context of the list is taken *)
shuffleFirstUnshuffled(regs, draw) == CHOOSE r \in regs : \A q \in regs : r <= q

(* shuffle() followed by taking element 0: any element can come first; the
   caller supplies the outcome of the random draw. *)
shuffleFirst(regs, draw) ==
  IF draw \in regs THEN draw ELSE CHOOSE r \in regs : \A q \in regs : r <= q

(* what a pass of pollHobjs finds in the registry for hConn besides running
   contexts, noted for the step that makes the pass *)
Seen(s, hConn) ==
  LET hObjsToPoll == getAllContextsForPoll(s, hConn)
  IN IF hConn = -1 THEN s
     ELSE [s EXCEPT !.overlaps = @ \cup {<<"pollHobjs", s.ctx[r].state>> :
                      r \in hObjsToPoll \ getRunningContexts(s, hObjsToPoll)}]

(* C34's mutant: the pass does not look at the handle it was given *)
pollHobjsUnchecked(s0, hConn, draw) ==
  LET s == Seen(s0, hConn)
      nonWaitingContexts == getRunningContexts(s, getAllContextsForPoll(s, hConn))
      s1 == [s EXCEPT !.scheduledGetLoop = FALSE]
      s2 == [s EXCEPT !.scheduledGetLoop = TRUE]
      c == shuffleFirst(nonWaitingContexts, draw[1])
  IN IF s.messagesRetrievedInHConnPoll > 0
     THEN setTimeout(s2, "pollPerHconn", hConn, s.tuningParameters.getLoopDelayTimeMs)
     ELSE IF nonWaitingContexts = {}
     THEN setTimeout(s2, "pollPerHconn", hConn, s.tuningParameters.getLoopPollTimeMs)
     ELSE initGet([s1 EXCEPT !.ctx[c].retrieved = 0, !.streak[c] = 0], c)

pollHobjs(s0, hConn, draw) ==
  LET s == Seen(s0, hConn)
      nonWaitingContexts == getRunningContexts(s, getAllContextsForPoll(s, hConn))
      s1 == [s EXCEPT !.scheduledGetLoop = FALSE]
      s2 == [s EXCEPT !.scheduledGetLoop = TRUE]
      c == shuffleFirst(nonWaitingContexts, draw[hConn])
  IN IF hConn = -1 THEN s
     ELSE IF s.messagesRetrievedInHConnPoll > 0
     THEN setTimeout(s2, "pollPerHconn", hConn, s.tuningParameters.getLoopDelayTimeMs)
     ELSE IF nonWaitingContexts = {}
     THEN setTimeout(s2, "pollPerHconn", hConn, s.tuningParameters.getLoopPollTimeMs)
     ELSE initGet([s1 EXCEPT !.ctx[c].retrieved = 0, !.streak[c] = 0], c)

pollPerHconn(s, hConn, draw) ==
  LET s1 == [s EXCEPT !.messagesRetrievedInHConnPoll = 0]
      hObjsToPoll == getAllContextsForPoll(s1, hConn)
      s2 == [s1 EXCEPT !.ctx = [r \in DOMAIN @ |->
                          IF r \in hObjsToPoll
                          THEN [@[r] EXCEPT !.state = "running", !.retrieved = 0]
                          ELSE @[r]]]
  IN IF hObjsToPoll = {} \/ hConn = -1
     THEN [s1 EXCEPT !.hConnsInPoll = @ \ {hConn}]
     ELSE pollHobjs(s2, hConn, draw)

RECURSIVE pollEach(_, _, _)
pollEach(s, hConnsToPoll, draw) ==
  IF hConnsToPoll = {} THEN s
  ELSE LET hConn == CHOOSE h \in hConnsToPoll : \A g \in hConnsToPoll : h <= g
           s1 == IF hConn # -1
                 THEN pollPerHconn([s EXCEPT !.hConnsInPoll = @ \cup {hConn}], hConn, draw)
                 ELSE [s EXCEPT !.hConnsInPoll = @ \ {hConn}]
       IN pollEach(s1, hConnsToPoll \ {hConn}, draw)

pollAllHConns(s, draw) ==
  LET s1 == IF s.contextMap # {}
            THEN pollEach(s, getFreshHconnsForPoll(s), draw)
            ELSE s
  IN IF s1.contextMap = {} THEN resetGetLoop(s1) ELSE s1

(* ---- the exported verbs of the scheduler ---- *)

Get(s, o, wi) ==
  LET r == Len(s.ctx) + 1
      s1 == setUserContext(s, o)
      s2 == [s1 EXCEPT !.ctx[r].jsgmoWait = wi, !.ctx[r].WaitInterval = wi]
      s3 == [s2 EXCEPT !.scheduledGetLoop = TRUE, !.getLoop = TRUE]
  IN IF ~s2.scheduledGetLoop \/ ~s2.getLoop
     THEN setTimeout(s3, "pollAllHConns", 0, 0)
     ELSE s2

(* C16's mutant: the registry is cleaned up whether or not the object is in it *)
GetDoneUnchecked(s, o) ==
  LET s1 == deleteUserContext(s, o)
  IN Left(s, IF s1.contextMap = {} THEN resetGetLoop(s1) ELSE s1, "cancelled")

(* what GetDone throws: MQError(MQCC_FAILED, MQRC_HOBJ_ERROR) when the
   object has no context, nothing otherwise *)
GetDoneError(s, o) ==
  IF getUserContext(s, o) = 0 THEN "MQRC_HOBJ_ERROR" ELSE "MQRC_NONE"

GetDone(s, o) ==
  LET s1 == deleteUserContext(s, o)
      s2 == IF s1.contextMap = {} THEN resetGetLoop(s1) ELSE s1
  IN IF getUserContext(s, o) = 0
     THEN s       \* throws MQError(MQCC_FAILED, MQRC_HOBJ_ERROR)
     ELSE Left(s, s2, "cancelled")

(* ---- the MQGET.async completion callback ---- *)

(* What the queue manager answers to MQGET(hConn, hObj, ..., bufflen). *)
MQGETReason(s, call, broken) ==
  IF call.hConn = -1 \/ s.hConnOf[call.who[1]] # call.hConn THEN "MQRC_HCONN_ERROR"
  ELSE IF call.hObj = -1 \/ s.hObjOf[call.who] # call.hObj THEN "MQRC_HOBJ_ERROR"
  ELSE IF broken THEN "MQRC_CONNECTION_BROKEN"
  ELSE IF s.queue[call.who] = <<>> THEN "MQRC_NO_MSG_AVAILABLE"
  ELSE IF Head(s.queue[call.who]).len > call.bufflen THEN "MQRC_TRUNCATED_MSG_FAILED"
  ELSE "MQRC_NONE"

(* The user's callback: it is handed an error or a message, and may call
   GetDone, or Get with the options it registered, for its own object before
   it returns. *)
UserCallback(s, r, ev, act) ==
  LET o == s.ctx[r].object
      s1 == [s EXCEPT !.cbLog[r] = Append(@, ev)]
  IN IF act = "GetDone" /\ getUserContext(s1, o) # 0 THEN GetDone(s1, o)
     ELSE IF act = "Get" /\ Len(s1.ctx) < MaxRegs THEN Get(s1, o, s1.ctx[r].jsgmoWait)
     ELSE s1

ErrEvent(s, r, rc) ==
  [t |-> "err", id |-> 0, rc |-> rc, waited |-> s.now - s.began[r], fate |-> s.fate[r],
   gated |-> isLocked(s, hConnOfCtx(s, r))]   \* is the gate of its connection held?

MsgEvent(s, r, m) ==
  [t |-> "msg", id |-> m.id, rc |-> "MQRC_NONE", waited |-> 0, fate |-> s.fate[r],
   gated |-> isLocked(s, hConnOfCtx(s, r))]

(* C14's mutant: a limited wait counts as over at the first empty answer *)
waitExpiredAtOnce(c, t) == c.WaitInterval # MQWI_UNLIMITED

waitExpired(c, t) ==
  IF c.WaitInterval = MQWI_UNLIMITED THEN FALSE
  ELSE IF t - c.WaitStartTime < c.WaitInterval THEN FALSE
  ELSE TRUE

(* C13's mutant: doubling without the clamp *)
doubledBufSizeUnclamped(n) == n * 2

doubledBufSize(n) == IF n * 2 > maxBufSize THEN maxBufSize ELSE n * 2

(* C12's mutant: the shrink ignores how much of the buffer the message used *)
shrunkBufSizeAlways(n, datalen) ==
  IF n > defaultBufSize
  THEN IF (n * 9) \div 10 < defaultBufSize THEN defaultBufSize ELSE (n * 9) \div 10
  ELSE n

(* (c.bufSize * 90) / 100 is computed in floating point; with 9 and 10 for
   90 and 100 the same values stay within 32 bits *)
shrunkBufSize(n, datalen) ==
  IF n > defaultBufSize /\ n * 9 > datalen * 10
  THEN IF (n * 9) \div 10 < defaultBufSize THEN defaultBufSize ELSE (n * 9) \div 10
  ELSE n

(* C15's mutant: the error is reported and the context stays registered *)
getFailedKeeping(s, r, rc, act) ==
  UserCallback([s EXCEPT !.ctx[r].state = "waiting"], r, ErrEvent(s, r, rc), act)

(* cc # MQCC_OK, reason neither truncation nor no-message-within-the-wait *)
getFailed(s, r, rc, act) ==
  LET s1 == [s EXCEPT !.ctx[r].state = "waiting"]
      s2 == UserCallback(s1, r, ErrEvent(s1, r, rc), act)
  IN Left(s2, deleteUserContext(s2, s2.ctx[r].object), "terminated")

(* C28's mutant: the context is left 'waiting' after its handler returned *)
getSucceededWaiting(s, r, act) ==
  LET o == s.ctx[r].object
      m == Head(s.queue[o])
      s1 == [s EXCEPT !.queue[o] = Tail(@),
                      !.ctx[r].state = "waiting",
                      !.ctx[r].retrieved = @ + 1,
                      !.streak[r] = @ + 1]
      s2 == UserCallback(s1, r, MsgEvent(s1, r, m), act)
  IN [s2 EXCEPT !.ctx[r].WaitInterval = s2.ctx[r].jsgmoWait,
                !.ctx[r].WaitStartTime = s2.now,
                !.began[r] = s2.now,
                !.ctx[r].bufSize = shrunkBufSize(@, m.len),
                !.messagesRetrievedInHConnPoll = @ + 1]

(* cc = MQCC_OK: everything up to the test of c.retrieved *)
getSucceeded(s, r, act) ==
  LET o == s.ctx[r].object
      m == Head(s.queue[o])
      s1 == [s EXCEPT !.queue[o] = Tail(@),
                      !.ctx[r].state = "waiting",
                      !.ctx[r].retrieved = @ + 1,
                      !.streak[r] = @ + 1]
      s2 == UserCallback(s1, r, MsgEvent(s1, r, m), act)
  IN [s2 EXCEPT !.ctx[r].state = "running",
                !.ctx[r].WaitInterval = s2.ctx[r].jsgmoWait,
                !.ctx[r].WaitStartTime = s2.now,
                !.began[r] = s2.now,
                !.ctx[r].bufSize = shrunkBufSize(@, m.len),
                !.messagesRetrievedInHConnPoll = @ + 1]

(* C3's mutant: one retry too many *)
moreToGetInclusive(c, tp) == c.retrieved <= tp.maxConsecutiveGets

(* c.retrieved < tuningParameters.maxConsecutiveGets *)
moreToGet(c, tp) == c.retrieved < tp.maxConsecutiveGets

MQGETCallback(s, call, broken, act, draw) ==
  LET r == call.reg
      rc == MQGETReason(s, call, broken)
      s0 == unlock([s EXCEPT !.calls = @ \ {call}], hConnOfCtx(s, r))
      c == s0.ctx[r]
      ok == getSucceeded(s0, r, act)
  IN IF rc = "MQRC_TRUNCATED_MSG_FAILED"
     THEN setTimeout([s0 EXCEPT !.ctx[r].bufSize = doubledBufSize(@)],
                     "pollHObjInternal", r, 0)
     ELSE IF rc = "MQRC_NO_MSG_AVAILABLE" /\ ~waitExpired(c, s0.now)
     THEN IF Cardinality(s0.contextMap) <= 1
          THEN setTimeout(s0, "pollHObjInternal", r, s0.tuningParameters.getLoopPollTimeMs)
          ELSE pollHobjs(s0, hConnOfCtx(s0, r), draw)
     ELSE IF rc # "MQRC_NONE"
     THEN LET s1 == getFailed(s0, r, rc, act)
          IN pollHobjs(s1, hConnOfCtx(s1, r), draw)
     ELSE IF moreToGet(ok.ctx[r], ok.tuningParameters)
     THEN setTimeout(ok, "pollHObjInternal", r, 0)
     ELSE pollHobjs(ok, hConnOfCtx(ok, r), draw)

(* ---- the other verbs ---- *)

(* Put, Put1, Open, Sub (asynchronous flavour): gate, call, release on completion *)
gatedStart(s, verb, q) ==
  StartCall(lock(s, s.hConnOf[q]), Call(verb, s.hConnOf[q], 0, 0, <<q, 0>>, 0, s))

gatedDone(s, call) ==
  unlock([s EXCEPT !.calls = @ \ {call}], s.hConnOf[call.who[1]])

discStart(s, q) ==
  StartCall(lock(s, s.hConnOf[q]), Call("MQDISC", s.hConnOf[q], 0, 0, <<q, 0>>, 0, s))

discDone(s, call, ok) ==
  LET q == call.who[1]
      savedHConn == call.hConn
      s1 == unlock([s EXCEPT !.calls = @ \ {call}], s.hConnOf[q])
      s2 == [s1 EXCEPT !.hConnOf[q] = IF ok THEN MQHC_UNUSABLE_HCONN ELSE @]
  IN IF savedHConn # -1
     THEN Left(s2, deleteUserConnection(s2, savedHConn), "disconnected")
     ELSE s2

closeStart(s, o) ==
  StartCall(lock(s, s.hConnOf[o[1]]),
            Call("MQCLOSE", s.hConnOf[o[1]], s.hObjOf[o], 0, o, 0, s))

closeDone(s, call, ok) ==
  LET o == call.who
      s1 == unlock([s EXCEPT !.calls = @ \ {call}], s.hConnOf[o[1]])
      s2 == IF ok THEN Left(s1, deleteUserContext(s1, o), "closed") ELSE s1
  IN [s2 EXCEPT !.hObjOf[o] = IF ok THEN MQHO_UNUSABLE_HOBJ ELSE @]

(* Cmit, Back, Begin, Stat, Inq, Set, GetSync: a synchronous call, no gate *)
ungated(s, verb, q) ==
  [s EXCEPT !.overlaps = @ \cup {<<d.verb, verb>> : d \in InFlightOn(s, s.hConnOf[q])}]

debugLongCallMonitorFunction(s) ==
  [s EXCEPT !.hConnsInUse = {l \in @ : ~(s.now - l[2] >= LongCallMs)}]

(* ---- initial state and steps ---- *)

Regs == 1 .. MaxRegs

(* ---- the get-options and the message descriptor of one registration ---- *)

MQGMO(options, wi) == [Options |-> options, WaitInterval |-> wi]

MQMD(msgId) == [MsgId |-> msgId]

(* before Get: c.jsgmo and c.jsmd are null *)
NoOpts ==
  [ pc |-> "none",
    given |-> <<MQGMO({}, 0), MQMD(0)>>,     \* what the caller registered
    cjsgmo |-> MQGMO({}, 0), cjsmd |-> MQMD(0),   \* c.jsgmo, c.jsmd: the caller's objects
    jsgmo |-> MQGMO({}, 0), jsmd |-> MQMD(0),     \* the copies pollHObj works on
    mqGmo |-> MQGMO({}, 0) ]                      \* the structure handed to MQGET

(* Get keeps references to the caller's objects *)
GetOpts(x, gmo, md) ==
  [x EXCEPT !.pc = "registered", !.given = <<gmo, md>>, !.cjsgmo = gmo, !.cjsmd = md]

(* initGet copies them for pollHObj *)
initGetOpts(x) ==
  [x EXCEPT !.pc = "dispatched", !.jsgmo = x.cjsgmo, !.jsmd = x.cjsmd]

(* C37's mutant: MQGMO_ACCEPT_TRUNCATED_MSG is left on *)
nonBlockingAccepting(gmo) ==
  [gmo EXCEPT !.WaitInterval = 0, !.Options = @ \ {"MQGMO_WAIT"}]

(* what pollHObjInternal makes of the MQGMO before the call *)
nonBlocking(gmo) ==
  [gmo EXCEPT !.WaitInterval = 0,
              !.Options = @ \ {"MQGMO_WAIT", "MQGMO_ACCEPT_TRUNCATED_MSG"}]

issueOpts(x) == [x EXCEPT !.pc = "inflight", !.mqGmo = nonBlocking(x.jsgmo)]

(* MQGMO._copyGMOfromC and MQMD._copyMDfromC are not part of mqi.js: the
   options of the copy are those of the structure that came back, or are left
   as they were; the descriptor is that of the message. *)
copiedBack(x, copied, msgId) ==
  [x EXCEPT !.jsgmo = IF copied THEN x.mqGmo ELSE @, !.jsmd = MQMD(msgId)]

(* cc = MQCC_OK: the handler is given the copies and may change their
   options (browse first to browse next); c.jsgmo.Options then takes the
   options of the copy. *)
deliveredOpts(x, handlerOptions, again) ==
  LET x1 == [x EXCEPT !.jsgmo.Options = handlerOptions]
  IN [x1 EXCEPT !.cjsgmo.Options = x1.jsgmo.Options,
                !.pc = IF again THEN "dispatched" ELSE "registered"]

Init ==
  /\ hConnOf = [q \in QMgrs |-> q]
  /\ hObjOf = [o \in Objects |-> o[2]]
  /\ contextMap = {}
  /\ ctx = <<>>
  /\ hConnsInUse = {}
  /\ hConnsInPoll = {}
  /\ scheduledGetLoop = FALSE
  /\ getLoop = FALSE
  /\ messagesRetrievedInHConnPoll = 0
  /\ tuningParameters \in TuningValues
  /\ timers = EmptyBag
  /\ calls = {}
  /\ queue = [o \in Objects |-> <<>>]
  /\ sent = [o \in Objects |-> 0]
  /\ now = 0
  /\ cbLog = <<>>
  /\ began = <<>>
  /\ overlaps = {}
  /\ streak = <<>>
  /\ fate = <<>>
  /\ opts = NoOpts

Due(fn) == {t \in BagToSet(timers) : t.fn = fn /\ t.due <= now}

Fired(t) == [Cur EXCEPT !.timers = @ (-) SetToBag({t})]

(* Math.random() in shuffle(): only with two or more registrations is there
   an order to draw. *)
Draws == IF Cardinality(contextMap) > 1 THEN Regs ELSE {1}

(* Whether the completion hands anything to the user's callback; if not, what
   the callback would have done is of no consequence. *)
Invokes(call, broken) ==
  LET rc == MQGETReason(Cur, call, broken) IN
    /\ rc # "MQRC_TRUNCATED_MSG_FAILED"
    /\ ~(rc = "MQRC_NO_MSG_AVAILABLE" /\ ~waitExpired(ctx[call.reg], now))

ActsOn(call, broken) == IF Invokes(call, broken) THEN HandlerActs ELSE {"none"}

DoGet == \E o \in Objects, wi \in WaitIntervals :
  /\ Len(ctx) < MaxRegs
  /\ Commit(Get(Cur, o, wi))

DoGetDone == \E o \in Objects : Commit(GetDone(Cur, o))



RunPollAllHConns == \E t \in Due("pollAllHConns"), draw \in [QMgrs -> Draws] :
  Commit(pollAllHConns(Fired(t), draw))

RunPollPerHconn == \E t \in Due("pollPerHconn"), d \in Draws :
  Commit(pollPerHconn(Fired(t), t.arg, [h \in QMgrs |-> d]))

RunPollHObjInternal == \E t \in Due("pollHObjInternal") :
  Commit(pollHObjInternal(Fired(t), t.arg))

CompleteGet ==
  \E call \in {c \in calls : c.verb = "MQGET"}, d \in Draws :
    \E act \in ActsOn(call, FALSE) :
      Commit(MQGETCallback(Cur, call, FALSE, act, [g \in QMgrs |-> d]))

(* the same completion when the connection to the queue manager has broken *)
CompleteGetBroken ==
  \E call \in {c \in calls : c.verb = "MQGET"}, d \in Draws :
    \E act \in ActsOn(call, TRUE) :
      Commit(MQGETCallback(Cur, call, TRUE, act, [g \in QMgrs |-> d]))

StartGated == \E verb \in GatedVerbs, q \in VerbQMgrs :
  /\ hConnOf[q] # -1
  /\ ~isLocked(Cur, hConnOf[q])
  /\ Commit(gatedStart(Cur, verb, q))

CompleteGated == \E call \in calls :
  /\ call.verb \in GatedVerbs
  /\ Commit(gatedDone(Cur, call))

StartDisc == \E q \in QMgrs :
  /\ hConnOf[q] # -1
  /\ ~isLocked(Cur, hConnOf[q])
  /\ Commit(discStart(Cur, q))

CompleteDisc == \E call \in calls, ok \in BOOLEAN :
  /\ call.verb = "MQDISC"
  /\ Commit(discDone(Cur, call, ok))

StartClose == \E o \in Objects :
  /\ hObjOf[o] # -1
  /\ hConnOf[o[1]] # -1
  /\ ~isLocked(Cur, hConnOf[o[1]])
  /\ Commit(closeStart(Cur, o))

CompleteClose == \E call \in calls, ok \in BOOLEAN :
  /\ call.verb = "MQCLOSE"
  /\ Commit(closeDone(Cur, call, ok))

CallUngated == \E verb \in UngatedVerbs, q \in VerbQMgrs :
  /\ hConnOf[q] # -1
  /\ Commit(ungated(Cur, verb, q))

RunMonitor ==
  /\ tuningParameters.debugLongCalls
  /\ Commit(debugLongCallMonitorFunction(Cur))

RECURSIVE Sum(_, _)
Sum(f, S) == IF S = {} THEN 0
             ELSE LET x == CHOOSE y \in S : TRUE IN f[x] + Sum(f, S \ {x})

Arrive == \E o \in Objects, len \in MsgLens :
  /\ Sum(sent, Objects) < MaxMsgs
  /\ Commit([Cur EXCEPT !.sent[o] = @ + 1,
                         !.queue[o] = Append(@, [id |-> sent[o] + 1, len |-> len])])

ArriveLong == \E o \in Objects, len \in LongLens :
  /\ Sum(sent, Objects) < MaxMsgs
  /\ Commit([Cur EXCEPT !.sent[o] = @ + 1,
                         !.queue[o] = Append(@, [id |-> sent[o] + 1, len |-> len])])

(* SpecDrain: messages pile up on one object *)
DrainObject == <<1, 1>>

ArriveDrain ==
  /\ sent[DrainObject] < MaxDrain
  /\ Commit([Cur EXCEPT !.sent[DrainObject] = @ + 1,
                         !.queue[DrainObject] =
                            Append(@, [id |-> sent[DrainObject] + 1, len |-> 100])])

DoGetDrain == \E o \in {p \in Objects : p[1] = DrainObject[1]} :
  /\ Len(ctx) < MaxRegs
  /\ Commit(Get(Cur, o, MQWI_UNLIMITED))

Tick ==
  /\ now < MaxTime
  /\ Commit([Cur EXCEPT !.now = IF now + TickMs > MaxTime THEN MaxTime
                                 ELSE now + TickMs])

(* The scheduler and its registrations. *)
Next ==
  \/ DoGet
  \/ DoGetDone
  \/ RunPollAllHConns
  \/ RunPollPerHconn
  \/ RunPollHObjInternal
  \/ CompleteGet
  \/ Arrive
  \/ Tick

Spec == Init /\ [][Next]_vars

(* The scheduler next to the other verbs that make transport calls. *)
NextGate ==
  \/ DoGet
  \/ DoGetDone
  \/ RunPollAllHConns
  \/ RunPollPerHconn
  \/ RunPollHObjInternal
  \/ CompleteGet
  \/ StartGated
  \/ CompleteGated
  \/ CallUngated
  \/ RunMonitor
  \/ Tick

InitGate == Init /\ tuningParameters.debugLongCalls

SpecGate == InitGate /\ [][NextGate]_vars

(* The scheduler while objects are closed and connections torn down. *)
NextLife ==
  \/ DoGet
  \/ DoGetDone
  \/ RunPollAllHConns
  \/ RunPollPerHconn
  \/ RunPollHObjInternal
  \/ CompleteGet
  \/ CompleteGetBroken
  \/ StartDisc
  \/ CompleteDisc
  \/ StartClose
  \/ CompleteClose
  \/ Tick

InitLife == Init /\ ~tuningParameters.debugLongCalls

SpecLife == InitLife /\ [][NextLife]_vars

(* Draining one connection on which messages pile up. *)
NextDrain ==
  \/ DoGetDrain
  \/ RunPollAllHConns
  \/ RunPollPerHconn
  \/ RunPollHObjInternal
  \/ CompleteGet
  \/ ArriveDrain
  \/ Tick

SpecDrain == Init /\ [][NextDrain]_vars

(* SpecBuf: messages of very different lengths arrive on one object, each
   after the one before it has been taken *)
ArriveBuf == \E len \in BufLens :
  /\ sent[DrainObject] < MaxBuf
  /\ queue[DrainObject] = <<>>
  /\ Commit([Cur EXCEPT !.sent[DrainObject] = @ + 1,
                         !.queue[DrainObject] =
                            <<[id |-> sent[DrainObject] + 1, len |-> len]>>])

NextBuf ==
  \/ DoGetDrain
  \/ RunPollAllHConns
  \/ RunPollPerHconn
  \/ RunPollHObjInternal
  \/ CompleteGet
  \/ ArriveBuf
  \/ Tick

SpecBuf == Init /\ [][NextBuf]_vars

(* The scheduler with every outcome of an attempt: a message, a message
   longer than the buffer, no message, a broken connection. *)
NextErr ==
  \/ DoGet
  \/ DoGetDone
  \/ RunPollAllHConns
  \/ RunPollPerHconn
  \/ RunPollHObjInternal
  \/ CompleteGet
  \/ CompleteGetBroken
  \/ ArriveLong
  \/ Tick

InitErr == Init /\ ~tuningParameters.debugLongCalls

SpecErr == InitErr /\ [][NextErr]_vars

(* The scheduler while connections are torn down. *)
NextDisc ==
  \/ DoGet
  \/ RunPollAllHConns
  \/ RunPollPerHconn
  \/ RunPollHObjInternal
  \/ CompleteGet
  \/ StartDisc
  \/ CompleteDisc
  \/ Tick

SpecDisc == InitGate /\ [][NextDisc]_vars

(* SpecFair: two objects of one connection, each refilled as soon as it is
   empty, read without end. The callback log is not kept, so that the
   behaviour can go on for ever within finitely many states. *)
Steady(s) == [s EXCEPT !.cbLog = [r \in DOMAIN @ |-> <<>>]]

ArriveSteady == \E o \in {p \in Objects : p[1] = DrainObject[1]} :
  /\ queue[o] = <<>>
  /\ Commit([Cur EXCEPT !.queue[o] = <<[id |-> 1, len |-> 100]>>])

CompleteGetSteady ==
  \E call \in {c \in calls : c.verb = "MQGET"}, d \in Draws :
    Commit(Steady(MQGETCallback(Cur, call, FALSE, "none", [g \in QMgrs |-> d])))

(* pollPerHconn when Math.random() makes shuffle() bring d to the front *)
RunPollPerHconnAs(d) == \E t \in Due("pollPerHconn") :
  Commit(pollPerHconn(Fired(t), t.arg, [h \in QMgrs |-> d]))

NextFair ==
  \/ DoGetDrain
  \/ RunPollAllHConns
  \/ RunPollPerHconn
  \/ RunPollHObjInternal
  \/ CompleteGetSteady
  \/ ArriveSteady

(* Node's event loop runs a timer that is due and delivers the completion of
   a call that was issued: weak fairness, written out with ENABLED spelled as
   "a timer is due" and "a call is in flight". The random draw is fair: strong
   fairness of each outcome of the draw in pollPerHconn. *)
SpecFair ==
  /\ InitGate
  /\ [][NextFair]_vars
  /\ WF_vars(ArriveSteady)
  /\ ([]<>(Due("pollHObjInternal") = {}) \/ []<><<RunPollHObjInternal>>_vars)
  /\ ([]<>({c \in calls : c.verb = "MQGET"} = {}) \/ []<><<CompleteGetSteady>>_vars)
  /\ \A d \in Regs :
       (<>[](Due("pollPerHconn") = {}) \/ []<><<RunPollPerHconnAs(d)>>_vars)

(* contextMap is a Map: one value per key, each a UserContext that exists *)
TypeOK ==
  /\ \A e \in contextMap : e[2] \in 1 .. Len(ctx)
  /\ \A e, f \in contextMap : e[1] = f[1] => e = f

(* ---- properties ---- *)

Pending(fn) == {t \in BagToSet(timers) : t.fn = fn}

Registered == {e[2] : e \in contextMap}

Attempts == {c \in calls : c.verb = "MQGET"}

(* C1: on one connection handle no two retrieval attempts of the scheduler
   are past the gate at the same time: while the MQGET.async of one attempt
   is outstanding, no other attempt for a context on that handle issues its
   MQGET.async. *)
C1_MutualExclusion ==
  /\ <<"MQGET", "MQGET">> \notin overlaps
  /\ \A c, d \in Attempts : c.hConn = d.hConn => c = d

(* C1's case: an attempt is outstanding on a handle that holds another
   registered, idle context, and the monitor has dropped that handle's lock *)
C1_Witness ==
  \E c \in Attempts :
    /\ ~isLocked(Cur, c.hConn)
    /\ \E r \in Registered \ {c.reg} :
         hConnOfCtx(Cur, r) = c.hConn /\ ctx[r].state = "running"

(* C2: while a retrieval attempt is outstanding on a connection handle no
   other verb starts a transport call on that handle, and no retrieval attempt
   starts while another verb's call is outstanding there. *)
C2_OneCallPerHandle ==
  \A p \in overlaps : "MQGET" \notin {p[1], p[2]}

(* C3, as the claim states it: for every value of maxConsecutiveGets no more
   messages than that are handed to a context between two passes of the
   picker. *)
C3_CapAsStated ==
  \A r \in DOMAIN streak : streak[r] <= tuningParameters.maxConsecutiveGets

Cap == IF tuningParameters.maxConsecutiveGets < 1 THEN 1
       ELSE tuningParameters.maxConsecutiveGets

(* C3, amended: between two passes of the picker a context is handed at most
   max(maxConsecutiveGets, 1) messages, and once it has been handed that many
   no attempt for it is outstanding or pending until the picker dispatches it
   again. *)
C3_CapRespected ==
  /\ \A r \in DOMAIN streak : streak[r] <= Cap
  /\ \A c \in Attempts : streak[c.reg] < Cap
  /\ \A t \in Pending("pollHObjInternal") : streak[t.arg] < Cap

(* C3's case: a context has been handed two messages in a row under a cap of
   two, a third is waiting on its queue, and the connection's next pass is
   what is pending *)
C3_Witness ==
  \E r \in Registered :
    /\ tuningParameters.maxConsecutiveGets = 2
    /\ streak[r] = 2
    /\ queue[ctx[r].object] # <<>>
    /\ \E t \in Pending("pollPerHconn") : t.arg = hConnOfCtx(Cur, r)
    /\ Attempts = {}

(* C4: a registered context with a finite wait on which nothing arrives is
   handed its timeout; so while such a context is registered the scheduler
   has a continuation outstanding that can lead to it. *)
C4_TimeoutArrives ==
  \A r \in Registered :
    ctx[r].WaitInterval # MQWI_UNLIMITED /\ cbLog[r] = <<>>
      => timers # EmptyBag \/ calls # {}

(* C5: after the last context has been removed no retrieval attempt is made
   until a context is registered again. *)
C5_IdleShutdown ==
  \A c \in Attempts : ~c.idle

(* C6: no retrieval attempt is started for a context that GetDone has
   removed. *)
C6_NoAttemptAfterCancel ==
  \A c \in Attempts : c.fate # "cancelled"

(* C7: once a registration has been replaced by a Get for the same key, no
   message is handed to the replaced registration's callback. *)
C7_ReplacedGetsNothing ==
  \A r \in DOMAIN cbLog : \A i \in DOMAIN cbLog[r] :
    cbLog[r][i].t = "msg" => cbLog[r][i].fate # "replaced"

(* the registrations this step makes *)
NewRegs == {e[2] : e \in contextMap'} \ DOMAIN ctx

(* nothing registered, no connection under polling, nothing outstanding *)
Dormant ==
  contextMap = {} /\ hConnsInPoll = {} /\ timers = EmptyBag /\ calls = {}

(* C8: a Get made while the scheduler is dormant schedules a discovery pass
   (pollAllHConns), whatever made the scheduler go idle. *)
C8_FreshGetWakes ==
  [][Dormant /\ NewRegs # {}
       => \E t \in BagToSet(timers') : t.fn = "pollAllHConns"]_vars

(* C9: a Get on a connection that is not under polling schedules a discovery
   pass, also while another connection is under polling. *)
C9_NewConnDiscovered ==
  [][\A r \in NewRegs :
       hConnsInPoll # {} /\ hConnOf[ctx'[r].object[1]] \notin hConnsInPoll
         => \E t \in BagToSet(timers') : t.fn = "pollAllHConns"]_vars

Last(q) == q[Len(q)]

(* the step hands registration b, still in the registry, its timeout *)
TimesOut(b) ==
  /\ b \in Registered
  /\ ctx[b].WaitInterval # MQWI_UNLIMITED
  /\ Len(cbLog'[b]) = Len(cbLog[b]) + 1
  /\ Last(cbLog'[b]).rc = "MQRC_NO_MSG_AVAILABLE"

(* what Get registered of a, and the wait it is in *)
Registration(c) ==
  <<c.object, c.jsgmoWait, c.WaitInterval, c.WaitStartTime, c.bufSize, c.state>>

(* C10: the timeout of B calls B's callback alone and once, and removes B's
   context alone; a context A on the same connection is left in the registry
   as it was, its callback is not called, and the connection goes on being
   polled: an attempt for one of its registered contexts is outstanding at
   once, or, when messages were retrieved in this pass, its next pass is
   scheduled. *)
C10_TimeoutFrame ==
  [][\A b \in DOMAIN ctx : TimesOut(b) =>
       /\ Len(SelectSeq(cbLog'[b], LAMBDA ev : ev.rc = "MQRC_NO_MSG_AVAILABLE")) = 1
       /\ contextMap' = {e \in contextMap : e[2] # b}
       /\ \A a \in Registered \ {b} :
            /\ cbLog'[a] = cbLog[a]
            /\ Registration(ctx'[a]) = Registration(ctx[a])
       /\ \A a \in Registered \ {b} :
            hConnOfCtx(Cur, a) = hConnOfCtx(Cur, b) =>
              IF messagesRetrievedInHConnPoll' = 0
              THEN \E c \in calls' : /\ c.verb = "MQGET"
                                     /\ c.reg \in Registered \ {b}
                                     /\ c.hConn = hConnOfCtx(Cur, b)
              ELSE /\ hConnOfCtx(Cur, b) \in hConnsInPoll'
                   /\ \E t \in BagToSet(timers') :
                        t.fn = "pollPerHconn" /\ t.arg = hConnOfCtx(Cur, b)
    ]_vars

(* C10's case: B has just been handed its timeout while A, with an unlimited
   wait on the same connection, is registered, and A's attempt is outstanding *)
C10_Witness ==
  \E a \in Registered, b \in DOMAIN ctx \ Registered :
    /\ fate[b] = "terminated"
    /\ cbLog[b] # <<>>
    /\ Last(cbLog[b]).rc = "MQRC_NO_MSG_AVAILABLE"
    /\ ctx[b].object[1] = ctx[a].object[1]
    /\ ctx[a].WaitInterval = MQWI_UNLIMITED
    /\ cbLog[a] = <<>>
    /\ \E c \in Attempts : c.reg = a

Min(a, b) == IF a < b THEN a ELSE b

Max(a, b) == IF a > b THEN a ELSE b

(* the step completes `call` with the given reason *)
Completes(call, rc) ==
  /\ call \in Attempts
  /\ call \notin calls'
  /\ MQGETReason(Cur, call, FALSE) = rc

(* C11: after an attempt ends truncated, the next attempt for the context is
   armed at once (no delay, no pass of the picker) and the buffer it hands to
   MQGET is min(2 * previous capacity, maxBufSize) long, the previous capacity
   being the length of the truncated attempt's buffer or, read the other way,
   the context's bufSize at that attempt. *)
C11_DoubledRetry ==
  [][\A call \in Attempts : Completes(call, "MQRC_TRUNCATED_MSG_FAILED") =>
       /\ \/ bufflen(ctx'[call.reg]) = Min(2 * call.bufflen, maxBufSize)
          \/ bufflen(ctx'[call.reg]) = Min(2 * ctx[call.reg].bufSize, maxBufSize)
       /\ calls' = calls \ {call}
       /\ timers' = timers (+) SetToBag({[fn |-> "pollHObjInternal",
                                          arg |-> call.reg, due |-> 0]})
    ]_vars

(* C12: a message of length L taken with capacity S = bufSize leaves bufSize
   at max(floor(0.9 * S), defaultBufSize) if S > defaultBufSize and L is under
   90% of S, and unchanged otherwise. *)
C12_Shrink ==
  [][\A call \in Attempts : Completes(call, "MQRC_NONE") =>
       LET S == ctx[call.reg].bufSize
           L == Head(queue[call.who]).len
       IN ctx'[call.reg].state # "collected" =>
            ctx'[call.reg].bufSize =
              IF S > 10240 /\ 10 * L < 9 * S
              THEN Max((9 * S) \div 10, 10240)
              ELSE S
    ]_vars

(* C12's case: a context whose buffer once grew to 20480 has been shrunk step
   by step down to the floor *)
C12_Witness ==
  \E r \in Registered :
    ctx[r].buf = 20480 /\ ctx[r].bufSize = defaultBufSize /\ streak[r] > 0

(* C13: the bufSize of every context is at least defaultBufSize and at most
   maxBufSize. *)
C13_BufSizeBounds ==
  \A r \in DOMAIN ctx : ctx[r].state # "collected" =>
    10240 <= ctx[r].bufSize /\ ctx[r].bufSize <= 104857600

(* C13's case: doubling has been clamped at the maximum *)
C13_Witness ==
  \E r \in Registered :
    ctx[r].bufSize = maxBufSize /\ ctx[r].buf = 83886080

(* The step is the completion callback of `call`, the connection broken or
   not. *)
Completion(call, broken) ==
  \E d \in Draws, act \in HandlerActs :
    Commit(MQGETCallback(Cur, call, broken, act, [g \in QMgrs |-> d]))

(* The queue manager's answer to `call` is one the scheduler retries: the
   message did not fit, or there is none and the wait is unlimited or has time
   left. *)
Transient(call) ==
  LET rc == MQGETReason(Cur, call, FALSE)
      c == ctx[call.reg]
  IN \/ rc = "MQRC_TRUNCATED_MSG_FAILED"
     \/ /\ rc = "MQRC_NO_MSG_AVAILABLE"
        /\ \/ c.WaitInterval = MQWI_UNLIMITED
           \/ now - c.WaitStartTime < c.WaitInterval

(* C14: an attempt that ends with a truncated message, or with no message
   while the wait is unlimited or not yet used up, invokes no callback and
   leaves the registry as it was; and whenever a callback is invoked it is given
   either the message at the head of its object's queue or an error that is
   neither of those two outcomes. *)
C14_TransientAbsorbed ==
  [][ /\ \A call \in Attempts :
           (Transient(call) /\ Completion(call, FALSE)) =>
              /\ \A r \in DOMAIN cbLog : Len(cbLog'[r]) <= Len(cbLog[r])
              /\ contextMap' = contextMap
      /\ \A r \in DOMAIN cbLog :
           Len(cbLog'[r]) > Len(cbLog[r]) =>
             LET ev == Last(cbLog'[r])
                 c == ctx[r]
             IN \/ /\ ev.t = "msg"
                   /\ queue[c.object] # <<>>
                   /\ ev.id = Head(queue[c.object]).id
                \/ /\ ev.t = "err"
                   /\ ev.rc # "MQRC_TRUNCATED_MSG_FAILED"
                   /\ ev.rc = "MQRC_NO_MSG_AVAILABLE" =>
                        /\ c.WaitInterval # MQWI_UNLIMITED
                        /\ now - c.WaitStartTime >= c.WaitInterval
    ]_vars

(* a truncated attempt has been absorbed: the buffer size has doubled, the
   message is still on the queue and the callback has not been invoked *)
C14_Witness ==
  \E r \in Registered :
    /\ ctx[r].bufSize = 2 * defaultBufSize
    /\ queue[ctx[r].object] # <<>>
    /\ cbLog[r] = <<>>
    /\ now > 0

(* The queue manager's answer to `call` is one the scheduler reports: the
   wait has run out, or the call failed for a reason other than a message that
   did not fit or a queue that is empty for now. *)
Terminal(call, broken) ==
  LET rc == MQGETReason(Cur, call, broken)
      c == ctx[call.reg]
  IN /\ rc \notin {"MQRC_NONE", "MQRC_TRUNCATED_MSG_FAILED"}
     /\ rc = "MQRC_NO_MSG_AVAILABLE" =>
          /\ c.WaitInterval # MQWI_UNLIMITED
          /\ now - c.WaitStartTime >= c.WaitInterval

(* C15: when an attempt ends in a terminal condition, the callback of its
   registration is invoked once, with that error; the registration is then not
   in the registry; no further attempt for it is issued or armed by the step;
   and a callback that has been given an error is not invoked again. *)
C15_TerminalOnce ==
  [][ /\ \A call \in Attempts, broken \in BOOLEAN :
           (Terminal(call, broken) /\ Completion(call, broken)) =>
              LET r == call.reg IN
                /\ Len(cbLog'[r]) = Len(cbLog[r]) + 1
                /\ Last(cbLog'[r]).t = "err"
                /\ Last(cbLog'[r]).rc = MQGETReason(Cur, call, broken)
                /\ r \notin {e[2] : e \in contextMap'}
                /\ ~\E c2 \in calls' \ calls : c2.reg = r
                /\ \A tm \in BagToSet(timers') :
                     (tm.fn = "pollHObjInternal" /\ tm.arg = r) =>
                        CopiesIn(tm, timers') <= CopiesIn(tm, timers)
      /\ \A r \in DOMAIN cbLog :
           (cbLog[r] # <<>> /\ Last(cbLog[r]).t = "err") =>
              Len(cbLog'[r]) <= Len(cbLog[r])
    ]_vars

(* a registration whose wait ran out: its callback has been given
   MQRC_NO_MSG_AVAILABLE and the registry no longer holds it *)
C15_Witness ==
  \E r \in DOMAIN cbLog :
    /\ cbLog[r] # <<>>
    /\ Last(cbLog[r]).t = "err"
    /\ Last(cbLog[r]).rc = "MQRC_NO_MSG_AVAILABLE"
    /\ r \notin Registered

(* C16: GetDone for an object that has no context in the registry throws
   MQError with MQRC_HOBJ_ERROR and changes nothing: the registry, the set of
   connections being polled and the two scheduler flags are as before, and so
   is every other part of the state. *)
C16_UnknownGetDone ==
  \A o \in Objects :
    getUserContext(Cur, o) = 0 =>
      /\ GetDoneError(Cur, o) = "MQRC_HOBJ_ERROR"
      /\ GetDone(Cur, o).contextMap = contextMap
      /\ GetDone(Cur, o).hConnsInPoll = hConnsInPoll
      /\ GetDone(Cur, o).scheduledGetLoop = scheduledGetLoop
      /\ GetDone(Cur, o).getLoop = getLoop
      /\ GetDone(Cur, o) = Cur

(* an object whose registration was cancelled or ended by an error, while
   the scheduler still has its flags up and its connection in the polled set *)
C16_Witness ==
  \E r \in DOMAIN ctx :
    /\ fate[r] \in {"cancelled", "terminated"}
    /\ getUserContext(Cur, ctx[r].object) = 0
    /\ scheduledGetLoop
    /\ getLoop
    /\ hConnsInPoll # {}

(* C17: when MQDISC for a connection completes and the connection is gone,
   the registry holds no context keyed to it any more and holds the contexts of
   the connections that are still valid as before; and the callback of a
   registration that was removed this way is not invoked afterwards. *)
C17_DiscCascade ==
  [][ /\ \A call \in {c \in calls : c.verb = "MQDISC"} :
           Commit(discDone(Cur, call, TRUE)) =>
              /\ ~\E e \in contextMap' : e[1][1] = call.hConn
              /\ \A e \in contextMap :
                   (e[1][1] # call.hConn /\ e[1][1] # MQHC_UNUSABLE_HCONN) => e \in contextMap'
      /\ \A r \in DOMAIN cbLog :
           fate[r] = "disconnected" => Len(cbLog'[r]) <= Len(cbLog[r])
    ]_vars

(* C18: a connection that has no context left in the registry is taken out
   of hConnsInPoll in the end. Once no timer is pending and no call is in
   flight the scheduler runs nothing more, so by then hConnsInPoll holds only
   connections that have a context. *)
C18_IdleConnLeaves ==
  (timers = EmptyBag /\ calls = {}) =>
     \A h \in hConnsInPoll : \E e \in contextMap : e[1][1] = h

(* In state s an attempt for registration r has been started that is not
   among the calls `old`: its MQGET was issued, or, the connection being in
   use, its pollHObjInternal was queued. *)
Dispatches(s, r, old) ==
  \/ \E c \in s.calls \ old : c.verb = "MQGET" /\ c.reg = r
  \/ \E tm \in BagToSet(s.timers) :
       /\ tm.fn = "pollHObjInternal"
       /\ tm.arg = r
       /\ CopiesIn(tm, s.timers) > CopiesIn(tm, timers)

(* every context that a pass of pollHobjs can choose from is chosen by some
   outcome of the draw: in the pass that pollPerHconn makes, and in the pass
   made when an attempt found no message *)
AnyCanBePicked ==
  /\ \A t \in Due("pollPerHconn") :
       \A r \in getAllContextsForPoll(Cur, t.arg) :
         \E d \in Draws :
           Dispatches(pollPerHconn(Fired(t), t.arg, [h \in QMgrs |-> d]), r, calls)
  /\ \A call \in Attempts :
       (/\ MQGETReason(Cur, call, FALSE) = "MQRC_NO_MSG_AVAILABLE"
        /\ ~waitExpired(ctx[call.reg], now)
        /\ Cardinality(contextMap) > 1
        /\ messagesRetrievedInHConnPoll = 0) =>
          \A r \in getRunningContexts(Cur, getAllContextsForPoll(Cur, call.hConn)) :
            \E d \in Draws :
              Dispatches(MQGETCallback(Cur, call, FALSE, "none", [h \in QMgrs |-> d]), r,
                         calls \ {call})

(* C19: with two contexts registered on one connection, a message always
   arriving again on each object and a fair draw, each of the two contexts is
   dispatched again and again (once pollAllHConns has run, each has an MQGET
   in flight at some later time, and so without end, for as long as it is
   registered); and at every pass each context that is running can be the one
   chosen. *)
C19_NoStarvation ==
  /\ \A r \in Regs :
       (r \in Registered /\ Cardinality(contextMap) >= 2 /\ Pending("pollAllHConns") = {})
          ~> ((\E c \in Attempts : c.reg = r) \/ r \notin Registered)
  /\ []AnyCanBePicked

(* both contexts are registered, the first has been handed a message and it
   is the second whose MQGET is now in flight *)
C19_Witness ==
  /\ Cardinality(contextMap) = 2
  /\ Pending("pollAllHConns") = {}
  /\ streak[1] > 0
  /\ \E c \in Attempts : c.reg = 2

(* The step hands message m of object o to the callback of registration r,
   and to no other callback. *)
HandsOver(o, m, r) ==
  /\ ctx[r].object = o
  /\ Len(cbLog'[r]) = Len(cbLog[r]) + 1
  /\ Last(cbLog'[r]).t = "msg"
  /\ Last(cbLog'[r]).id = m.id
  /\ \A q \in DOMAIN cbLog \ {r} : Len(cbLog'[q]) <= Len(cbLog[q])

(* C20: every message that an MQGET takes from an object's queue is handed,
   in that step, once, to the callback registered for the object, so that the
   callback sees the messages of the object in the order in which MQGET
   returned them; nothing is handed to a callback without such an MQGET; and
   no object has two attempts under way. *)
C20_InOrderOnce ==
  [][ /\ \A call \in Attempts :
           (MQGETReason(Cur, call, FALSE) = "MQRC_NONE" /\ Completion(call, FALSE)) =>
              /\ getUserContext(Cur, call.who) # 0
              /\ HandsOver(call.who, Head(queue[call.who]), getUserContext(Cur, call.who))
      /\ \A r \in DOMAIN cbLog :
           (Len(cbLog'[r]) > Len(cbLog[r]) /\ Last(cbLog'[r]).t = "msg") =>
              \E call \in Attempts :
                /\ call.reg = r
                /\ MQGETReason(Cur, call, FALSE) = "MQRC_NONE"
                /\ Completion(call, FALSE)
                /\ Last(cbLog'[r]).id = Head(queue[call.who]).id
                /\ queue'[call.who] = Tail(queue[call.who])
      /\ \A o \in Objects :
           Cardinality({c \in calls' : c.verb = "MQGET" /\ c.who = o}) <= 1
    ]_vars

(* C21: when the completion of an MQGET is observed, the gate of its
   connection is released first: each callback invocation finds the gate of
   its connection free; and after every step a gate is held only where a
   call is in flight on its connection (after a completion: the call the step
   itself issued), so none is held across a timer. *)
C21_GateReleasedFirst ==
  [][ /\ \A r \in DOMAIN cbLog :
           Len(cbLog'[r]) > Len(cbLog[r]) => ~Last(cbLog'[r]).gated
      /\ \A l \in hConnsInUse' : \E c \in calls' : c.hConn = l[1]
    ]_vars

(* a callback has been handed a message while the next attempt on the same
   connection, issued by the same step, holds the gate again *)
C21_Witness ==
  \E r \in DOMAIN cbLog :
    /\ cbLog[r] # <<>>
    /\ Last(cbLog[r]).t = "msg"
    /\ ~Last(cbLog[r]).gated
    /\ \E l \in hConnsInUse : l[1] = hConnOfCtx(Cur, r)

(* C22: an entry of hConnsInUse goes only in a step in which a call on its
   handle completes, whatever the tuning parameters and however long the call
   takes; hence no two calls that pass the gate are in flight on one handle. *)
C22_GateOwnedByCaller ==
  [][ /\ \A l \in hConnsInUse :
           l \notin hConnsInUse' => \E c \in calls \ calls' : c.hConn = l[1]
      /\ \A c, d \in calls' :
           (c.hConn = d.hConn /\ {c.verb, d.verb} \subseteq {"MQGET"} \cup GatedVerbs) => c = d
    ]_vars

(* The step armed a pollPerHconn re-pass for handle h and issued no MQGET on
   it. *)
RePassArmed(h) ==
  /\ \E tm \in BagToSet(timers') :
       /\ tm.fn = "pollPerHconn"
       /\ tm.arg = h
       /\ CopiesIn(tm, timers') > CopiesIn(tm, timers)
       /\ tm.due = (IF tuningParameters.getLoopDelayTimeMs <= 0 THEN 0
                    ELSE now + tuningParameters.getLoopDelayTimeMs)
  /\ ~\E c \in calls' \ calls : c.verb = "MQGET" /\ c.hConn = h

(* C23: when an attempt on connection C finds no message and control goes
   back to the picker, the picker arms the delayed re-pass for C if the drain
   that just ended handed over a message on C, and does not arm it, but goes
   on to the next context, if no message was ever retrieved on C: what
   happened on other connections changes neither. *)
C23_DelayPerConnection ==
  [][ \A call \in Attempts :
        (/\ Completion(call, FALSE)
         /\ Transient(call)
         /\ MQGETReason(Cur, call, FALSE) = "MQRC_NO_MSG_AVAILABLE"
         /\ Cardinality(contextMap) > 1
         /\ call.reg \in Registered
         /\ call.hConn = hConnOfCtx(Cur, call.reg)) =>
           /\ ctx[call.reg].retrieved > 0 => RePassArmed(call.hConn)
           /\ (\A o \in Objects : o[1] = call.who[1] => sent[o] = Len(queue[o]))
                 => ~RePassArmed(call.hConn)
    ]_vars

(* no message is queued on the object of any registered context *)
NothingAvailable ==
  \A e \in contextMap : queue[e[1]] = <<>>

(* C24: while no message is available on any registered context, an attempt
   that ends with no message within its wait budget, more than one context
   being registered, is not followed at once by another attempt on the same
   connection: the next attempt waits for a delayed pass (both delay tiers
   being set above zero). *)
C24_DelayBetweenAttempts ==
  [][ \A call \in Attempts :
        (/\ Completion(call, FALSE)
         /\ Transient(call)
         /\ MQGETReason(Cur, call, FALSE) = "MQRC_NO_MSG_AVAILABLE"
         /\ Cardinality(contextMap) > 1
         /\ tuningParameters.getLoopPollTimeMs > 0
         /\ tuningParameters.getLoopDelayTimeMs > 0
         /\ NothingAvailable) =>
           /\ ~\E c \in calls' \ (calls \ {call}) :
                 c.verb = "MQGET" /\ c.hConn = call.hConn
           /\ \A tm \in BagToSet(timers') :
                 (/\ tm.fn = "pollHObjInternal"
                  /\ CopiesIn(tm, timers') > CopiesIn(tm, timers)) => tm.due > now
    ]_vars

(* The step armed the retry of call's own context after the idle-poll
   interval, and made no picker pass: nothing else was armed or issued. *)
SelfDelays(call) ==
  /\ timers' = timers (+) SetToBag({Timer("pollHObjInternal", call.reg, Cur,
                                          tuningParameters.getLoopPollTimeMs)})
  /\ calls' = calls \ {call}

(* C25: an attempt that ends with no message within its wait budget is
   retried for the same context after the idle-poll interval, without a
   picker pass, exactly when that context is the only context registered in
   the process; otherwise control goes back to the picker. *)
C25_SelfDelayIffAlone ==
  [][ \A call \in Attempts :
        (/\ Completion(call, FALSE)
         /\ Transient(call)
         /\ MQGETReason(Cur, call, FALSE) = "MQRC_NO_MSG_AVAILABLE") =>
           (SelfDelays(call) <=> Registered = {call.reg})
    ]_vars

(* the step invoked r's handler; Last(cbLog'[r]) is what it was given *)
Invoked(r) == Len(cbLog'[r]) > Len(cbLog[r])

(* C26: the wait clock of a context starts at its registration, restarts,
   together with the wait budget, when its handler has been given a message,
   and is changed by nothing else (an attempt that finds no message or a
   message that does not fit leaves it alone); a timeout is signalled only
   when at least the wait interval has passed since the later of the
   registration and the last delivery. *)
C26_ClockRestarts ==
  [][ /\ \A r \in DOMAIN ctx' \ DOMAIN ctx :
           ctx'[r].state # "collected" => ctx'[r].WaitStartTime = now
      /\ \A r \in DOMAIN ctx :
           (ctx[r].state # "collected" /\ ctx'[r].state # "collected") =>
             IF Invoked(r) /\ Last(cbLog'[r]).t = "msg"
             THEN /\ ctx'[r].WaitStartTime = now
                  /\ ctx'[r].WaitInterval = ctx'[r].jsgmoWait
             ELSE /\ ctx'[r].WaitStartTime = ctx[r].WaitStartTime
                  /\ ctx'[r].WaitInterval = ctx[r].WaitInterval
      /\ \A r \in DOMAIN cbLog :
           (Invoked(r) /\ Last(cbLog'[r]).rc = "MQRC_NO_MSG_AVAILABLE") =>
             /\ ctx[r].WaitInterval # MQWI_UNLIMITED
             /\ Last(cbLog'[r]).waited >= ctx[r].WaitInterval
    ]_vars

(* a context was given a message and, a wait interval later, its timeout *)
C26_Witness ==
  \E r \in DOMAIN cbLog :
    /\ Len(cbLog[r]) = 2
    /\ cbLog[r][1].t = "msg"
    /\ cbLog[r][2].rc = "MQRC_NO_MSG_AVAILABLE"
    /\ cbLog[r][2].waited = TickMs

(* SpecWake: registrations come and go on one connection whose queues stay
   empty; every wait is unlimited, so that no pass is ever put off to a
   pollPerHconn timer. Node's event loop runs each timer that is due and
   delivers the completion of each call that was issued. *)
NextWake ==
  \/ DoGetDrain
  \/ DoGetDone
  \/ RunPollAllHConns
  \/ RunPollHObjInternal
  \/ CompleteGetSteady

SpecWake ==
  /\ InitGate
  /\ [][NextWake]_vars
  /\ WF_vars(RunPollHObjInternal)
  /\ ([]<>(Due("pollAllHConns") = {}) \/ []<><<RunPollAllHConns>>_vars)
  /\ ([]<>({c \in calls : c.verb = "MQGET"} = {}) \/ []<><<CompleteGetSteady>>_vars)

(* C27: a context registered on a connection that is under polling has, for
   as long as it stays registered, an MQGET issued for it at some later time,
   whatever continuation the connection had pending when it was registered. *)
C27_EventuallyDispatched ==
  \A r \in Regs :
    (r \in Registered /\ hConnOfCtx(Cur, r) \in hConnsInPoll)
       ~> ((\E c \in Attempts : c.reg = r) \/ r \notin Registered)

(* C28: a pass of pollHobjs finds every context that the registry holds for
   its connection in state 'running': 'waiting' is set only while the
   handler is being called and is gone, or the context is out of the registry,
   before the picker looks. *)
C28_PickerSeesRunning ==
  \A p \in overlaps : p[1] # "pollHobjs"

(* a handler has been given a message, its context is still registered, and
   the picker has made its pass and put the connection's next pass off *)
C28_Witness ==
  \E r \in Registered :
    /\ cbLog[r] # <<>>
    /\ Last(cbLog[r]).t = "msg"
    /\ ctx[r].state = "running"
    /\ \E tm \in Pending("pollPerHconn") : tm.arg = hConnOfCtx(Cur, r)

(* how many continuations the scheduler has for connection handle h: pending
   pollPerHconn timers for h, pending pollHObjInternal timers of contexts on
   h, and MQGET.async calls in flight on h *)
Continuations(h) ==
  LET mine == {tm \in BagToSet(timers) :
                 \/ tm.fn = "pollPerHconn" /\ tm.arg = h
                 \/ tm.fn = "pollHObjInternal" /\ hConnOfCtx(Cur, tm.arg) = h}
  IN BagCardinality([tm \in mine |-> CopiesIn(tm, timers)])
       + Cardinality({c \in Attempts : c.hConn = h})

(* the step ran a pollAllHConns timer: the discovery pass *)
Discovers ==
  \E t \in Due("pollAllHConns") : CopiesIn(t, timers') < CopiesIn(t, timers)

(* C29: each connection has at most one scheduler continuation at any time,
   pending pollPerHconn timers, pending pollHObjInternal timers and MQGET.async
   calls in flight counted together, so at most one context of a connection
   is being dispatched; and the discovery pass starts nothing for a
   connection that is in the active-polling set. *)
C29_OneContinuation ==
  /\ [](\A q \in QMgrs : Continuations(q) <= 1)
  /\ [][Discovers => \A h \in hConnsInPoll :
           /\ \A c \in calls' \ calls : c.hConn # h
           /\ \A tm \in BagToSet(timers') :
                CopiesIn(tm, timers') > CopiesIn(tm, timers) =>
                  /\ ~(tm.fn = "pollPerHconn" /\ tm.arg = h)
                  /\ ~(tm.fn = "pollHObjInternal" /\ hConnOfCtx(Cur, tm.arg) = h)
      ]_vars

(* both connections are under polling, each with its one continuation *)
C29_Witness ==
  /\ hConnsInPoll = {hConnOf[q] : q \in QMgrs}
  /\ \A q \in QMgrs : Continuations(q) = 1
  /\ \A q \in QMgrs : \E r \in Registered : hConnOfCtx(Cur, r) = q

(* C30: once GetDone has removed a registration, its handler is invoked at
   most by the completion of the attempt that was in flight when GetDone was
   called: no attempt issued after the removal hands it a message, a timeout
   or an error. *)
C30_SilentAfterGetDone ==
  [][ \A r \in DOMAIN cbLog :
        (Invoked(r) /\ Last(cbLog'[r]).fate = "cancelled") =>
           \E call \in calls \ calls' :
             call.verb = "MQGET" /\ call.reg = r /\ call.fate = "registered"
    ]_vars

(* the step is the completion callback of call, the handler, if invoked,
   doing act *)
CompletionAs(call, broken, act) ==
  \E d \in Draws : Commit(MQGETCallback(Cur, call, broken, act, [g \in QMgrs |-> d]))

(* C31: when an attempt ends in a terminal condition, the clean-up removes
   from the registry the registration the attempt was dispatched for and no
   other: a registration of another context, also one under the same key that
   replaced it or was made after it was cancelled, stays in the registry, and
   so does a registration that the handler makes while it is being told. *)
C31_RemovesOwnOnly ==
  [][ \A call \in Attempts :
        Terminal(call, FALSE) =>
          /\ CompletionAs(call, FALSE, "none") =>
                Registered \ {call.reg} \subseteq {e[2] : e \in contextMap'}
          /\ (CompletionAs(call, FALSE, "Get") /\ Len(ctx) < MaxRegs) =>
                Len(ctx) + 1 \in {e[2] : e \in contextMap'}
    ]_vars

(* SpecHuge: a message longer than the largest buffer arrives on the drained
   object. *)
HugeLen == maxBufSize + 1

ArriveHuge ==
  /\ sent[DrainObject] < MaxMsgs
  /\ Commit([Cur EXCEPT !.sent[DrainObject] = @ + 1,
                         !.queue[DrainObject] =
                            Append(@, [id |-> sent[DrainObject] + 1, len |-> HugeLen])])

NextHuge ==
  \/ DoGetDrain
  \/ DoGetDone
  \/ RunPollAllHConns
  \/ RunPollHObjInternal
  \/ CompleteGet
  \/ ArriveHuge

SpecHuge == Init /\ [][NextHuge]_vars

(* C32: no attempt that ends truncated is retried with the capacity it had:
   each such outcome raises the context's bufSize, so that a run of truncated
   outcomes ends after finitely many doublings, also for a message longer than
   maxBufSize. *)
C32_TruncationEnds ==
  [][\A call \in Attempts : Completes(call, "MQRC_TRUNCATED_MSG_FAILED") =>
       ctx'[call.reg].bufSize > ctx[call.reg].bufSize]_vars

(* C33: the buffer handed to each MQGET is as long as the context's bufSize,
   whatever doublings and shrinks went before. *)
C33_BufferIsBufSize ==
  \A c \in Attempts : c.bufflen = ctx[c.reg].bufSize

(* a pass abandoned: no call issued, no timer armed, no handler invoked, the
   registry as it was *)
Abandoned(s) ==
  /\ s.calls = calls
  /\ s.timers = timers
  /\ s.cbLog = cbLog
  /\ s.contextMap = contextMap

(* C34: a poll pass that is given the invalid handle -1 issues no transport
   call, invokes no handler and removes no context, in pollHobjs, in
   pollPerHconn and in the discovery pass, where contexts whose connection
   handle is -1 are passed over. *)
C34_InvalidHandleSkipped ==
  /\ [](\A d \in Draws :
         /\ Abandoned(pollHobjs(Cur, -1, [g \in QMgrs |-> d]))
         /\ Abandoned(pollPerHconn(Cur, -1, [g \in QMgrs |-> d])))
  /\ [][Discovers =>
         /\ \A c \in calls' \ calls : c.hConn # -1
         /\ \A tm \in BagToSet(timers') : tm.fn = "pollPerHconn" => tm.arg # -1
         /\ \A r \in DOMAIN cbLog : ~Invoked(r)
         /\ contextMap' = contextMap
      ]_vars

(* the one registration ever made is on a connection whose handle is -1, and
   the discovery pass that its Get scheduled has run *)
C34_Witness ==
  /\ Len(ctx) = 1
  /\ \E r \in Registered : hConnOfCtx(Cur, r) = -1
  /\ scheduledGetLoop
  /\ timers = EmptyBag
  /\ calls = {}

(* no entry of hConnsInUse is for handle h *)
GateFree(h) == \A l \in hConnsInUse : l[1] # h

(* C35: the gate is per connection handle. An attempt whose own connection's
   gate is free is issued, whatever gates are held for other connections: the
   executor that comes back on a timer issues its MQGET, and the picker pass
   that a timer starts puts no attempt off to the next tick. *)
C35_GatePerConnection ==
  /\ \A tm \in Due("pollHObjInternal") :
       GateFree(hConnOfCtx(Cur, tm.arg)) =>
         \E c \in pollHObjInternal(Fired(tm), tm.arg).calls \ calls :
           c.verb = "MQGET" /\ c.reg = tm.arg
  /\ \A t \in Due("pollPerHconn"), d \in Draws :
       GateFree(t.arg) =>
         \A tm \in BagToSet(pollPerHconn(Fired(t), t.arg, [g \in QMgrs |-> d]).timers) :
           tm.fn = "pollHObjInternal" =>
             CopiesIn(tm, pollPerHconn(Fired(t), t.arg, [g \in QMgrs |-> d]).timers)
               <= CopiesIn(tm, timers)

(* a Put holds the gate of one connection while an MQGET, holding the gate
   of another, is in flight there *)
C35_Witness ==
  \E c, d \in calls :
    /\ c.hConn # d.hConn
    /\ d.verb = "MQGET"
    /\ c.verb \in GatedVerbs
    /\ ~GateFree(c.hConn)
    /\ ~GateFree(d.hConn)

(* SpecOpts: what one registration's get-options and descriptor go through,
   from Get over each dispatch and attempt to each delivery. *)
GmoFlags == {"MQGMO_WAIT", "MQGMO_ACCEPT_TRUNCATED_MSG", "MQGMO_BROWSE_FIRST",
             "MQGMO_BROWSE_NEXT"}

MsgIds == {0, 1}          \* MQMD.MsgId: MQMI_NONE, the id of a message

DoGetOpts == \E options \in SUBSET GmoFlags, wi \in WaitIntervals, id \in MsgIds :
  /\ opts.pc = "none"
  /\ opts' = GetOpts(opts, MQGMO(options, wi), MQMD(id))
  /\ UNCHANGED schedVars

DoInitGetOpts ==
  /\ opts.pc = "registered"
  /\ opts' = initGetOpts(opts)
  /\ UNCHANGED schedVars

DoIssueOpts ==
  /\ opts.pc = "dispatched"
  /\ opts' = issueOpts(opts)
  /\ UNCHANGED schedVars

(* truncated, or no message within the wait: the same copies are used again,
   by the executor itself or after the next pass of the picker *)
DoRetryOpts == \E copied \in BOOLEAN, again \in BOOLEAN :
  /\ opts.pc = "inflight"
  /\ opts' = [copiedBack(opts, copied, opts.jsmd.MsgId)
                EXCEPT !.pc = IF again THEN "dispatched" ELSE "registered"]
  /\ UNCHANGED schedVars

DoDeliverOpts == \E copied \in BOOLEAN, id \in MsgIds, again \in BOOLEAN, browseNext \in BOOLEAN :
  /\ opts.pc = "inflight"
  /\ LET x == copiedBack(opts, copied, id)
     IN opts' = deliveredOpts(x, IF browseNext /\ "MQGMO_BROWSE_FIRST" \in x.jsgmo.Options
                                 THEN (x.jsgmo.Options \ {"MQGMO_BROWSE_FIRST"})
                                        \cup {"MQGMO_BROWSE_NEXT"}
                                 ELSE x.jsgmo.Options, again)
  /\ UNCHANGED schedVars

NextOpts ==
  \/ DoGetOpts
  \/ DoInitGetOpts
  \/ DoIssueOpts
  \/ DoRetryOpts
  \/ DoDeliverOpts

SpecOpts == Init /\ [][NextOpts]_vars

(* C36: the objects the caller registered, c.jsgmo and c.jsmd, hold at all
   times what the caller put in them: the scheduler works on copies. *)
C36_OriginalsUntouched ==
  opts.pc # "none" => <<opts.cjsgmo, opts.cjsmd>> = opts.given

(* C37: the MQGMO handed to MQGET has WaitInterval 0 and neither MQGMO_WAIT
   nor MQGMO_ACCEPT_TRUNCATED_MSG, whatever was registered, and every other
   option of the working copy. *)
C37_NonBlocking ==
  opts.pc = "inflight" =>
    /\ opts.mqGmo.WaitInterval = 0
    /\ "MQGMO_WAIT" \notin opts.mqGmo.Options
    /\ "MQGMO_ACCEPT_TRUNCATED_MSG" \notin opts.mqGmo.Options
    /\ opts.mqGmo.Options \cup {"MQGMO_WAIT", "MQGMO_ACCEPT_TRUNCATED_MSG"}
         = opts.jsgmo.Options \cup {"MQGMO_WAIT", "MQGMO_ACCEPT_TRUNCATED_MSG"}

(* the caller asked for a wait of 500 ms, truncated messages accepted, browse
   first; the call in flight carries browse first alone, with no wait *)
C37_Witness ==
  /\ opts.pc = "inflight"
  /\ opts.given[1] = MQGMO({"MQGMO_WAIT", "MQGMO_ACCEPT_TRUNCATED_MSG", "MQGMO_BROWSE_FIRST"}, 500)
  /\ opts.jsgmo = opts.given[1]
  /\ opts.mqGmo = MQGMO({"MQGMO_BROWSE_FIRST"}, 0)

(* SpecClose: objects are closed while the scheduler polls them. *)
NextClose ==
  \/ DoGet
  \/ RunPollAllHConns
  \/ RunPollPerHconn
  \/ RunPollHObjInternal
  \/ CompleteGet
  \/ StartClose
  \/ CompleteClose
  \/ Tick

SpecClose == InitGate /\ [][NextClose]_vars

(* the registered contexts, each as it stands *)
Registry(cm, cx) == {<<e[1], Registration(cx[e[2]])>> : e \in cm}

(* C38: the completion of a Close that succeeded takes the context of the
   closed object, and no other, out of the registry and leaves every other
   context as it was; the completion of a Close that failed leaves the
   registry as it was. *)
C38_CloseRemovesOwn ==
  [][ \A call \in {c \in calls : c.verb = "MQCLOSE"} :
        /\ Commit(closeDone(Cur, call, TRUE)) =>
              /\ {e[2] : e \in contextMap'}
                   = {r \in Registered : ctx[r].object # call.who}
              /\ Registry(contextMap', ctx') \subseteq Registry(contextMap, ctx)
        /\ Commit(closeDone(Cur, call, FALSE)) =>
              Registry(contextMap', ctx') = Registry(contextMap, ctx)
    ]_vars

(* an object with a context has been closed, and the context of another
   object is still registered *)
C38_Witness ==
  /\ \E r \in DOMAIN fate : fate[r] = "closed"
  /\ \E o \in Objects : hObjOf[o] = MQHO_UNUSABLE_HOBJ
  /\ Registered # {}

(* ---- setTuningParameters: the properties of the object given are applied one by one ---- *)
MaxKeys == 2                                  \* properties of the object given
TuningKeys == {"maxConsecutiveGets", "getLoopPollTimeMs", "getLoopDelayTimeMs",
               "syncMQICompat", "debugLongCalls", "debugLog", "unknownKey"}
\* a JavaScript value with its typeof; null has typeof "object"
JsValues == { [type |-> "number", val |-> 0, isNull |-> FALSE],
              [type |-> "number", val |-> 2, isNull |-> FALSE],
              [type |-> "boolean", val |-> TRUE, isNull |-> FALSE],
              [type |-> "boolean", val |-> FALSE, isNull |-> FALSE],
              [type |-> "string", val |-> "x", isNull |-> FALSE],
              [type |-> "object", val |-> "null", isNull |-> TRUE] }
\* the object given: its properties in the order for..in visits them
TuningObjects ==
  { v \in UNION { [1..n -> {[key |-> k, value |-> x] : k \in TuningKeys, x \in JsValues}] : n \in 0..MaxKeys } :
      \A i, j \in DOMAIN v : v[i].key = v[j].key => i = j }

\* typeof tuningParameters[key]: the default's type, which every assignment keeps
typeofTuning(key) ==
  IF key \in {"syncMQICompat", "debugLongCalls", "debugLog"} THEN "boolean" ELSE "number"

\* checkParamRequired with required = true: null throws, a typeof other than expected throws
checkParam(b, type) == ~b.isNull /\ b.type = type

\* setTuningParameters(v): for each key, a known key of the right type is assigned at once,
\* anything else throws TypeError where the loop stands
RECURSIVE setTuningParameters(_, _)
setTuningParameters(tp, v) ==
  IF v = <<>> THEN [tp |-> tp, threw |-> FALSE]
  ELSE LET key == Head(v).key
           value == Head(v).value
       IN IF key \in DOMAIN tp
          THEN IF checkParam(value, typeofTuning(key))
               THEN setTuningParameters([tp EXCEPT ![key] = value.val], Tail(v))
               ELSE [tp |-> tp, threw |-> TRUE]
          ELSE [tp |-> tp, threw |-> TRUE]

DoSetTuningParameters ==
  \E v \in TuningObjects :
    Commit([Cur EXCEPT !.tuningParameters = setTuningParameters(tuningParameters, v).tp])

NextTune == DoSetTuningParameters
SpecTune == Init /\ [][NextTune]_vars

\* C39: a call of setTuningParameters that throws TypeError (an unknown property, or a value
\* of the wrong type) leaves every tuning parameter at its previous value, whatever other
\* valid properties the same object has.
C39_RejectedChangesNothing ==
  [][ \A v \in TuningObjects :
        ( /\ setTuningParameters(tuningParameters, v).threw
          /\ Commit([Cur EXCEPT !.tuningParameters = setTuningParameters(tuningParameters, v).tp]) )
        => tuningParameters' = tuningParameters
    ]_vars

====
